---- MODULE Spec2Model ----
(***************************************************************************)
(* Model of checkov/secrets/plugins/custom_regex_detector.py: the          *)
(* per-customer detector cache and load_detectors(), the transformation    *)
(* of secret policies into detector rules, and CustomRegexDetector         *)
(* (construction, analyze_string, analyze_line).                           *)
(***************************************************************************)
EXTENDS Integers, Sequences, FiniteSets, TLC

VARIABLES
    USE_LOCAL_FILE,   \* module constant read from the environment at import
    cache,            \* DETECTORS_BY_CUSTOMER_CACHE: customer name -> detectors
    prev,             \* the load_detectors() call before the last one
    last,             \* the last load_detectors() call
    custom_secrets,   \* transforms_policies_to_detectors_list: its argument
    idx,              \* ... number of policies the loop has processed
    custom_detectors, \* ... the list the loop appends to
    tstatus,          \* ... "running", "returned" or "raised"
    customer_env,     \* os.environ['CUSTOMER_NAME'] of a scanning process
    detector,         \* the CustomRegexDetector object, or the failure to build it
    scan              \* the last analyze_line() call on the detector

vars == <<USE_LOCAL_FILE, cache, prev, last, custom_secrets, idx,
          custom_detectors, tstatus, customer_env, detector, scan>>

----------------------------------------------------------------------------
(* Python values *)

\* None, where a string is expected (os.getenv of an unset variable).
NoneValue == "<None>"

\* JSON scalars kept with their type: truthiness depends on it.
JStr(s) == [t |-> "str", s |-> s, n |-> 0]
JInt(n) == [t |-> "int", s |-> "", n |-> n]
JNull == [t |-> "null", s |-> "", n |-> 0]

\* bool(v) of a JSON scalar.
Truthy(v) ==
    CASE v.t = "str" -> v.s # ""
      [] v.t = "int" -> v.n # 0
      [] OTHER -> FALSE

\* bool(customer_name) of os.getenv's result.
TruthyName(name) == name \notin {NoneValue, ""}

Return(v) == [raised |-> FALSE, value |-> v]
Raise == [raised |-> TRUE, value |-> <<>>]

----------------------------------------------------------------------------
(* The embedded code documents and yaml.safe_load *)

\* What yaml.safe_load returns, as far as the transformation reads it: the type
\* of the document, whether 'definition' is in it, the same for the value
\* under 'definition', and the patterns under definition.value.
Doc(t, has, dt, dhas, value) ==
    [t |-> t, has |-> has, definition |-> [t |-> dt, has |-> dhas, value |-> value]]

BadYaml == "{"
CodeTexts ==
    { "", BadYaml, "~", "5", "plain", "definition", "other: 1",
      "definition: ~", "definition: 5", "definition: plain", "definition: value",
      "definition: {other: 1}", "definition: {value: []}",
      "definition: {value: [a]}", "definition: {value: [(a)|(b), a]}",
      "definition: {value: [a(b)?]}", "definition: {value: [a(b)?, (]}" }

\* yaml.safe_load on the texts above; BadYaml does not parse.
yaml_safe_load(code) ==
    CASE code = BadYaml -> Raise
      [] code = "~" -> Return(Doc("null", {}, "null", {}, <<>>))
      [] code = "5" -> Return(Doc("int", {}, "null", {}, <<>>))
      [] code = "plain" -> Return(Doc("str", {}, "null", {}, <<>>))
      [] code = "definition" -> Return(Doc("str", {"definition"}, "null", {}, <<>>))
      [] code = "other: 1" -> Return(Doc("map", {}, "null", {}, <<>>))
      [] code = "definition: ~" -> Return(Doc("map", {"definition"}, "null", {}, <<>>))
      [] code = "definition: 5" -> Return(Doc("map", {"definition"}, "int", {}, <<>>))
      [] code = "definition: plain" -> Return(Doc("map", {"definition"}, "str", {}, <<>>))
      [] code = "definition: value" ->
            Return(Doc("map", {"definition"}, "str", {"value"}, <<>>))
      [] code = "definition: {other: 1}" ->
            Return(Doc("map", {"definition"}, "map", {}, <<>>))
      [] code = "definition: {value: []}" ->
            Return(Doc("map", {"definition"}, "map", {"value"}, <<>>))
      [] code = "definition: {value: [a]}" ->
            Return(Doc("map", {"definition"}, "map", {"value"}, <<"a">>))
      [] code = "definition: {value: [(a)|(b), a]}" ->
            Return(Doc("map", {"definition"}, "map", {"value"}, <<"(a)|(b)", "a">>))
      [] code = "definition: {value: [a(b)?]}" ->
            Return(Doc("map", {"definition"}, "map", {"value"}, <<"a(b)?">>))
      [] code = "definition: {value: [a(b)?, (]}" ->
            Return(Doc("map", {"definition"}, "map", {"value"}, <<"a(b)?", "(">>))

\* `key in d`: a TypeError when d is None or a number, else membership
\* (a key of a mapping, an item of a list, a substring of a string).
Contains(key, d) ==
    IF d.t \in {"null", "int"} THEN Raise ELSE Return(key \in d.has)

\* d[key] can be taken only of a mapping (a TypeError for a string or a list).
Subscriptable(d) == d.t = "map"

----------------------------------------------------------------------------
(* transforms_policies_to_detectors_list *)

Rule(name, check_id, regex) == [Name |-> name, Check_ID |-> check_id, Regex |-> regex]

\* As RulesOfPatterns, falling back to incidentId only for a null checkovCheckId.
RulesOfPatterns_null_only(secret_policy, value) ==
    [i \in 1..Len(value) |->
        Rule(secret_policy.title,
             IF secret_policy.checkovCheckId.t # "null"
                 THEN secret_policy.checkovCheckId
                 ELSE secret_policy.incidentId,
             value[i])]

\* Lines 85-89: one detector per regex of definition.value.
RulesOfPatterns(secret_policy, value) ==
    [i \in 1..Len(value) |->
        Rule(secret_policy.title,
             IF Truthy(secret_policy.checkovCheckId)
                 THEN secret_policy.checkovCheckId
                 ELSE secret_policy.incidentId,
             value[i])]

\* Lines 82-89, on the parsed document.
DocRules(secret_policy, code_dict) ==
    LET hasDef == Contains("definition", code_dict)
        hasVal == Contains("value", code_dict.definition)
    IN  IF hasDef.raised THEN Raise
        ELSE IF ~hasDef.value THEN Return(<<>>)
        ELSE IF ~Subscriptable(code_dict) THEN Raise
        ELSE IF hasVal.raised THEN Raise
        ELSE IF ~hasVal.value THEN Return(<<>>)
        ELSE IF ~Subscriptable(code_dict.definition) THEN Raise
        ELSE Return(RulesOfPatterns(secret_policy, code_dict.definition.value))

\* One iteration of the loop (lines 78-91): the detectors the policy adds, or
\* the exception it raises.
PolicyRules(secret_policy) ==
    IF "code" \notin DOMAIN secret_policy THEN Raise
    ELSE IF secret_policy.code = "" THEN Return(<<>>)
    ELSE LET code_dict == yaml_safe_load(secret_policy.code)
         IN  IF code_dict.raised THEN Raise
             ELSE DocRules(secret_policy, code_dict.value)

\* The whole function, as load_detectors calls it: an exception of one policy
\* leaves the loop and the function.
RECURSIVE TransformFrom(_, _, _)
TransformFrom(policies, i, acc) ==
    IF i > Len(policies) THEN Return(acc)
    ELSE LET r == PolicyRules(policies[i])
         IN  IF r.raised THEN Raise
             ELSE TransformFrom(policies, i + 1, acc \o r.value)

transforms_policies_to_detectors_list(policies) == TransformFrom(policies, 1, <<>>)

modify_secrets_policy_to_detectors(policies_list) ==
    transforms_policies_to_detectors_list(policies_list)

----------------------------------------------------------------------------
(* Policy records: the inputs of the transformation *)

Policy(code, title, checkovCheckId, incidentId) ==
    [code |-> code, title |-> title, checkovCheckId |-> checkovCheckId,
     incidentId |-> incidentId]

\* A record without the 'code' key.
PolicyNoCode(title, checkovCheckId, incidentId) ==
    [title |-> title, checkovCheckId |-> checkovCheckId, incidentId |-> incidentId]

INC == JStr("INC-42")
CKV == JStr("CKV_1")

PatternCodes ==
    { "definition: {value: []}", "definition: {value: [a]}",
      "definition: {value: [(a)|(b), a]}", "definition: {value: [a(b)?]}",
      "definition: {value: [a(b)?, (]}" }

Policies ==
    {Policy(c, "T1", CKV, INC) : c \in CodeTexts}
    \cup {PolicyNoCode("T1", CKV, INC)}
    \cup {Policy(c, "T2", id, INC) : c \in PatternCodes, id \in {JStr(""), JNull, JInt(0)}}
    \cup {Policy(c, "T2", CKV, INC) : c \in PatternCodes}

MaxPolicies == 2

RECURSIVE SeqsUpTo(_, _)
SeqsUpTo(S, n) ==
    IF n = 0 THEN {<<>>}
    ELSE LET shorter == SeqsUpTo(S, n - 1)
         IN  shorter \cup {Append(q, x) : q \in shorter, x \in S}

----------------------------------------------------------------------------
(* The loop of transforms_policies_to_detectors_list, one policy per step *)

\* for secret_policy in custom_secrets: ... (lines 77-91)
TransformStep ==
    /\ tstatus = "running"
    /\ idx < Len(custom_secrets)
    /\ LET r == PolicyRules(custom_secrets[idx + 1])
       IN  IF r.raised
               THEN /\ tstatus' = "raised"
                    /\ UNCHANGED <<idx, custom_detectors>>
               ELSE /\ custom_detectors' = custom_detectors \o r.value
                    /\ idx' = idx + 1
                    /\ UNCHANGED tstatus
    /\ UNCHANGED <<USE_LOCAL_FILE, cache, prev, last, custom_secrets,
                   customer_env, detector, scan>>

\* return custom_detectors (line 92)
TransformReturn ==
    /\ tstatus = "running"
    /\ idx = Len(custom_secrets)
    /\ tstatus' = "returned"
    /\ UNCHANGED <<USE_LOCAL_FILE, cache, prev, last, custom_secrets, idx,
                   custom_detectors, customer_env, detector, scan>>

----------------------------------------------------------------------------
(* The cache and load_detectors *)

Tenants == {"t1", "t2"}
CustomerNames == Tenants \cup {NoneValue, ""}

get_customer_cache(c) == c

\* cache.get(customer_name, []) for a truthy name, else [].
get_detectors_from_cache(customer_name, c) ==
    IF TruthyName(customer_name)
        THEN IF customer_name \in DOMAIN get_customer_cache(c)
                 THEN get_customer_cache(c)[customer_name]
                 ELSE <<>>
        ELSE <<>>

\* The local bundle: open() fails when it is missing or unreadable, json.load
\* when it is not JSON.
get_detectors_from_local_file(file) ==
    IF file.state = "ok" THEN Return(file.content) ELSE Raise

\* utilsPython's get_json_object: the object, None when there is none, or an
\* exception (throw_json_error=True).
get_json_object(obj) ==
    IF obj.state = "error" THEN Raise ELSE Return(obj)

\* `get_json_object(...) or []`, and a dict put in a list (lines 51-52, 58-59):
\* items holds the records of a list, or the one record that a dict is.
PoliciesList(obj) == IF obj.state = "notfound" THEN <<>> ELSE obj.items

CallResult(raised, detectors, c, acquisitions, acq) ==
    [raised |-> raised, detectors |-> detectors, cache |-> c,
     acquisitions |-> acquisitions, acq |-> acq]

\* if customer_name: DETECTORS_BY_CUSTOMER_CACHE[customer_name] = detectors
StoreInCache(customer_name, c, detectors) ==
    IF TruthyName(customer_name)
        THEN [n \in DOMAIN c \cup {customer_name} |->
                 IF n = customer_name THEN detectors ELSE c[n]]
        ELSE c

\* As OnAcquisitionError without its return: the call goes on to line 57.
OnAcquisitionError_no_return(customer_name, c, detectors) ==
    CallResult(FALSE, detectors, StoreInCache(customer_name, c, detectors), 1, "raise")

\* except Exception: logging.error(...); return []   (lines 53-55)
OnAcquisitionError(customer_name, c, detectors) ==
    CallResult(FALSE, <<>>, c, 1, "raise")

\* if not detectors (line 45): an empty list is falsy.
CacheMiss(detectors) == detectors = <<>>

load_detectors(customer_name, c, use_local, file, obj) ==
    LET detectors == get_detectors_from_cache(customer_name, c)
    IN  IF ~CacheMiss(detectors) THEN CallResult(FALSE, detectors, c, 0, "none")
        ELSE
          LET local == get_detectors_from_local_file(file)
              fetched == get_json_object(obj)
          IN  IF (IF use_local THEN local.raised ELSE fetched.raised)
                  THEN OnAcquisitionError(customer_name, c, detectors)
              ELSE
                LET policies_list == IF use_local THEN <<>> ELSE PoliciesList(obj)
                    acq == IF ~use_local /\ obj.state = "notfound"
                               THEN "notfound" ELSE "data"
                    modified ==
                        IF policies_list # <<>>
                            THEN modify_secrets_policy_to_detectors(policies_list)
                            ELSE Return(IF use_local THEN local.value ELSE detectors)
                IN  IF modified.raised
                        THEN CallResult(TRUE, <<>>, c, 1, acq)
                        ELSE CallResult(FALSE, modified.value,
                                 StoreInCache(customer_name, c, modified.value), 1, acq)

\* The local bundles and the remote objects a call can find.
R1 == Rule("AWS Key", JStr("CKV_SEC_1"), "a")
R2 == Rule("Token", JStr("CKV_SEC_2"), "a")
R3 == Rule("Token", JStr("CKV_SEC_3"), "a(b)?")
R4 == Rule("Broken", JStr("CKV_SEC_4"), "(")

Bundles == { <<>>, <<R1>>, <<R1, R2>>, <<R2, R3>>, <<R1, R4, R3>> }

LocalFiles ==
    {[state |-> s, content |-> <<>>] : s \in {"missing", "invalid_json"}}
    \cup {[state |-> "ok", content |-> b] : b \in Bundles}

PA == Policy("definition: {value: [(a)|(b), a]}", "T1", CKV, INC)
PB == Policy("definition: {value: [a]}", "T1", JStr(""), INC)
PC == Policy("definition: {value: [a(b)?, (]}", "T2", CKV, INC)
PD == Policy("definition: {value: [a(b)?]}", "T2", JNull, INC)
PE == Policy("other: 1", "T1", CKV, INC)
PF == PolicyNoCode("T1", CKV, INC)

RemoteObjects ==
    {[state |-> s, items |-> <<>>] : s \in {"error", "notfound"}}
    \cup {[state |-> "dict", items |-> <<PA>>]}
    \cup {[state |-> "list", items |-> b] :
            b \in {<<>>, <<PA, PB>>, <<PC>>, <<PD, PB>>, <<PE>>, <<PB, PF>>}}

MissingFile == [state |-> "missing", content |-> <<>>]
NotFound == [state |-> "notfound", items |-> <<>>]

\* The bundle and the remote object a call finds; it reads only the one that
\* USE_LOCAL_FILE selects.
Environments(use_local) ==
    IF use_local
        THEN {[file |-> f, obj |-> NotFound] : f \in LocalFiles}
        ELSE {[file |-> MissingFile, obj |-> o] : o \in RemoteObjects}

NoCall ==
    [called |-> FALSE, customer_name |-> NoneValue, raised |-> FALSE,
     detectors |-> <<>>, acquisitions |-> 0, acq |-> "none", before |-> <<>>]

CallRecord(customer_name, r, before) ==
    [called |-> TRUE, customer_name |-> customer_name, raised |-> r.raised,
     detectors |-> r.detectors, acquisitions |-> r.acquisitions, acq |-> r.acq,
     before |-> before]

\* One call of load_detectors() with CUSTOMER_NAME = customer_name.
LoadDetectors ==
    \E customer_name \in CustomerNames, env \in Environments(USE_LOCAL_FILE) :
        LET r == load_detectors(customer_name, cache, USE_LOCAL_FILE, env.file, env.obj)
        IN  /\ cache' = r.cache
            /\ prev' = [last EXCEPT !.before = <<>>]
            /\ last' = CallRecord(customer_name, r, cache)
            /\ UNCHANGED <<USE_LOCAL_FILE, custom_secrets, idx, custom_detectors,
                           tstatus, customer_env, detector, scan>>

----------------------------------------------------------------------------
(* Regular expressions: re.compile and Pattern.findall *)

\* A compiled pattern is a list of alternatives, each a list of pieces; a
\* piece is a literal, in capture group g (0: in none), optional or not.
Piece(lit, g, opt) == [lit |-> lit, g |-> g, opt |-> opt]
Compiled(pattern, groups, alts) == [pattern |-> pattern, groups |-> groups, alts |-> alts]

\* re.compile on the patterns the rules use; "(" is not a regular expression.
\* Two Pattern objects of one pattern string are equal and hash alike.
re_compile(pattern) ==
    CASE pattern = "a" ->
            Return(Compiled(pattern, 0, << <<Piece(<<"a">>, 0, FALSE)>> >>))
      [] pattern = "(a)|(b)" ->
            Return(Compiled(pattern, 2, << <<Piece(<<"a">>, 1, FALSE)>>,
                                           <<Piece(<<"b">>, 2, FALSE)>> >>))
      [] pattern = "a(b)?" ->
            Return(Compiled(pattern, 1, << <<Piece(<<"a">>, 0, FALSE),
                                             Piece(<<"b">>, 1, TRUE)>> >>))
      [] pattern = "(" -> Raise

NoMatch == [ok |-> FALSE, end |-> 0, caps |-> <<>>]

\* The pieces from the k-th on, matched at position pos (greedy, backtracking
\* over an optional piece); caps holds what each group captured, <<>> for a
\* group that took no part.
RECURSIVE MatchPieces(_, _, _, _, _)
MatchPieces(string, pos, pieces, k, caps) ==
    IF k > Len(pieces) THEN [ok |-> TRUE, end |-> pos, caps |-> caps]
    ELSE
      LET p == pieces[k]
          stop == pos + Len(p.lit) - 1
          fits == stop <= Len(string) /\ SubSeq(string, pos, stop) = p.lit
          taken == IF fits
                       THEN MatchPieces(string, stop + 1, pieces, k + 1,
                                IF p.g > 0 THEN [caps EXCEPT ![p.g] = p.lit] ELSE caps)
                       ELSE NoMatch
      IN  IF taken.ok THEN taken
          ELSE IF p.opt THEN MatchPieces(string, pos, pieces, k + 1, caps)
          ELSE NoMatch

\* The first alternative, from the j-th on, that matches at pos.
RECURSIVE MatchAlts(_, _, _, _)
MatchAlts(regex, string, pos, j) ==
    IF j > Len(regex.alts) THEN NoMatch
    ELSE LET m == MatchPieces(string, pos, regex.alts[j], 1,
                              [g \in 1..regex.groups |-> <<>>])
         IN  IF m.ok THEN m ELSE MatchAlts(regex, string, pos, j + 1)

\* The non-overlapping matches from pos on, left to right: the matched text
\* and the groups' values. (No pattern above matches the empty string.)
RECURSIVE MatchesFrom(_, _, _)
MatchesFrom(regex, string, pos) ==
    IF pos > Len(string) THEN <<>>
    ELSE LET m == MatchAlts(regex, string, pos, 1)
         IN  IF m.ok
                 THEN <<[text |-> SubSeq(string, pos, m.end - 1), caps |-> m.caps]>>
                      \o MatchesFrom(regex, string, m.end)
                 ELSE MatchesFrom(regex, string, pos + 1)

Matches(regex, string) == MatchesFrom(regex, string, 1)

\* Pattern.findall: the matched text when the pattern has no group, the
\* group's value when it has one, the tuple of the groups' values when it has
\* more; the value of a group that took no part is ''.
FindallItem(regex, m) ==
    CASE regex.groups = 0 -> [is_tuple |-> FALSE, text |-> m.text, groups |-> <<>>]
      [] regex.groups = 1 -> [is_tuple |-> FALSE, text |-> m.caps[1], groups |-> <<>>]
      [] OTHER -> [is_tuple |-> TRUE, text |-> <<>>, groups |-> m.caps]

findall(regex, string) ==
    LET ms == Matches(regex, string)
    IN  [i \in 1..Len(ms) |-> FindallItem(regex, ms[i])]

----------------------------------------------------------------------------
(* CustomRegexDetector *)

\* filter(bool, match): the non-empty items of a tuple, in order.
FilterBool(t) == SelectSeq(t, LAMBDA x : x # <<>>)

\* What analyze_string yields for one item of findall (lines 137-142).
Yielded(regex, match) ==
    LET subs == IF match.is_tuple THEN FilterBool(match.groups) ELSE <<match.text>>
    IN  [i \in 1..Len(subs) |-> [match |-> subs[i], regex |-> regex.pattern]]

RECURSIVE Flatten(_)
Flatten(ss) == IF ss = <<>> THEN <<>> ELSE Head(ss) \o Flatten(Tail(ss))

\* for match in regex.findall(string): ... (lines 136-142)
YieldedByRegex(regex, string) ==
    LET found == findall(regex, string)
    IN  Flatten([i \in 1..Len(found) |-> Yielded(regex, found[i])])

\* analyze_string: order is the order in which the set self.denylist is
\* iterated.
analyze_string(order, string) ==
    Flatten([i \in 1..Len(order) |-> YieldedByRegex(order[i], string)])

\* As AddDetector, passing over a pattern that does not compile.
AddDetector_skip_invalid(self, d) ==
    LET c == re_compile(d.Regex)
    IN  IF c.raised THEN self
        ELSE [self EXCEPT
                 !.denylist = @ \cup {c.value},
                 !.regex_to_metadata =
                     [r \in DOMAIN @ \cup {d.Regex} |-> IF r = d.Regex THEN d ELSE @[r]]]

\* As AddDetector, keeping the metadata a pattern already has.
AddDetector_keep_first(self, d) ==
    LET c == re_compile(d.Regex)
    IN  IF c.raised THEN [self EXCEPT !.raised = TRUE]
        ELSE [self EXCEPT
                 !.denylist = @ \cup {c.value},
                 !.regex_to_metadata =
                     [r \in DOMAIN @ \cup {d.Regex} |->
                         IF r \in DOMAIN @ THEN @[r] ELSE d]]

\* One iteration of __init__'s loop (lines 106-107) on the object so far.
AddDetector(self, d) ==
    LET c == re_compile(d.Regex)
    IN  IF c.raised THEN [self EXCEPT !.raised = TRUE]
        ELSE [self EXCEPT
                 !.denylist = @ \cup {c.value},
                 !.regex_to_metadata =
                     [r \in DOMAIN @ \cup {d.Regex} |-> IF r = d.Regex THEN d ELSE @[r]]]

\* __init__'s loop over the detectors from the i-th on; re.error leaves it.
RECURSIVE BuildFrom(_, _, _)
BuildFrom(self, detectors, i) ==
    IF i > Len(detectors) \/ self.raised THEN self
    ELSE BuildFrom(AddDetector(self, detectors[i]), detectors, i + 1)

\* Lines 101-102.
EmptyDetector == [raised |-> FALSE, denylist |-> {}, regex_to_metadata |-> <<>>]

DetectorObject(status, loaded, rules, self) ==
    [status |-> status, loaded |-> loaded, rules |-> rules,
     denylist |-> self.denylist, regex_to_metadata |-> self.regex_to_metadata]

NoDetector == DetectorObject("none", FALSE, <<>>, EmptyDetector)

\* VerifiedResult of detect_secrets, and a hook that raises.
VerifyOutcomes == {"VERIFIED_TRUE", "VERIFIED_FALSE", "UNVERIFIED", "raise"}

\* As IsVerified, taking every result but VERIFIED_FALSE for a verification.
IsVerified_not_false(outcome) == outcome \notin {"VERIFIED_FALSE", "raise"}

\* Lines 121-125.
IsVerified(outcome) == outcome = "VERIFIED_TRUE"

PotentialSecret(type, filename, secret, line_number, is_verified) ==
    [type |-> type, filename |-> filename, secret |-> secret,
     line_number |-> line_number, is_verified |-> is_verified, check_id |-> JNull]

\* The identity of a finding in a set (PotentialSecret.__eq__ and __hash__).
PotentialSecretKey(ps) ==
    <<ps.type, ps.filename, ps.secret, ps.line_number, ps.is_verified>>

\* As SetAdd on a list: every finding is kept.
SetAdd_append(output, ps) == Append(output, ps)

\* output.add(ps): nothing is added when an equal finding is in the set.
SetAdd(output, ps) ==
    IF \E i \in 1..Len(output) : PotentialSecretKey(output[i]) = PotentialSecretKey(ps)
        THEN output
        ELSE Append(output, ps)

\* The loop of analyze_line (lines 120-130) from the i-th result on; outcomes[i]
\* is what the verification hook does on the i-th result. A KeyError of the
\* metadata lookup leaves the loop.
RECURSIVE AnalyzeFrom(_, _, _, _, _, _, _)
AnalyzeFrom(self, filename, line_number, raw, outcomes, i, output) ==
    IF i > Len(raw) THEN [raised |-> FALSE, output |-> output]
    ELSE IF raw[i].regex \notin DOMAIN self.regex_to_metadata
        THEN [raised |-> TRUE, output |-> output]
    ELSE
      LET meta == self.regex_to_metadata[raw[i].regex]
          ps == [PotentialSecret(meta.Name, filename, raw[i].match, line_number,
                                 IsVerified(outcomes[i]))
                    EXCEPT !.check_id = meta.Check_ID]
      IN  AnalyzeFrom(self, filename, line_number, raw, outcomes, i + 1,
                      SetAdd(output, ps))

analyze_line(self, filename, line_number, raw, outcomes) ==
    AnalyzeFrom(self, filename, line_number, raw, outcomes, 1, <<>>)

\* The orders in which a set can be iterated.
RECURSIVE Orders(_)
Orders(S) ==
    IF S = {} THEN {<<>>}
    ELSE UNION {{<<x>> \o o : o \in Orders(S \ {x})} : x \in S}

Alphabet == {"a", "b"}
MaxLineLen == 2
MaxRaw == 4
Filenames == {"f1", "f2"}
LineNumbers == {0, 7}

NoScan ==
    [called |-> FALSE, filename |-> "", line |-> <<>>, line_number |-> 0,
     raw |-> <<>>, outcomes |-> <<>>, raised |-> FALSE, output |-> <<>>]

\* CustomRegexDetector(): load_detectors() for CUSTOMER_NAME, then the loop.
Construct ==
    \E env \in Environments(USE_LOCAL_FILE) :
        LET r == load_detectors(customer_env, cache, USE_LOCAL_FILE, env.file, env.obj)
            self == BuildFrom(EmptyDetector, r.detectors, 1)
        IN  /\ cache' = r.cache
            /\ detector' =
                 IF r.raised THEN DetectorObject("failed", FALSE, <<>>, EmptyDetector)
                 ELSE DetectorObject(IF self.raised THEN "failed" ELSE "built",
                                     TRUE, r.detectors, self)
            /\ scan' = NoScan
            /\ UNCHANGED <<USE_LOCAL_FILE, prev, last, custom_secrets, idx,
                           custom_detectors, tstatus, customer_env>>

\* detector.analyze_line(filename, line, line_number) on a constructed detector.
\* The call leaves the detector as it is, so a later call reaches what a first
\* call reaches: scan records one call per constructed detector.
AnalyzeLine ==
    /\ detector.status = "built"
    /\ ~scan.called
    /\ \E filename \in Filenames, line \in SeqsUpTo(Alphabet, MaxLineLen),
          line_number \in LineNumbers, order \in Orders(detector.denylist) :
        LET raw == analyze_string(order, line)
        IN  /\ Len(raw) <= MaxRaw
            /\ \E outcomes \in [1..Len(raw) -> VerifyOutcomes] :
                LET r == analyze_line(detector, filename, line_number, raw, outcomes)
                IN  scan' = [called |-> TRUE, filename |-> filename, line |-> line,
                             line_number |-> line_number, raw |-> raw,
                             outcomes |-> outcomes, raised |-> r.raised,
                             output |-> r.output]
    /\ UNCHANGED <<USE_LOCAL_FILE, cache, prev, last, custom_secrets, idx,
                   custom_detectors, tstatus, customer_env, detector>>

----------------------------------------------------------------------------
(* Specifications *)

\* The process after import: an empty cache, nothing called yet.
Init ==
    /\ USE_LOCAL_FILE \in BOOLEAN
    /\ cache = <<>>
    /\ prev = NoCall
    /\ last = NoCall
    /\ custom_secrets = <<>>
    /\ idx = 0
    /\ custom_detectors = <<>>
    /\ tstatus = "returned"
    /\ customer_env = NoneValue
    /\ detector = NoDetector
    /\ scan = NoScan

Next == LoadDetectors

\* Any sequence of load_detectors() calls.
Spec == Init /\ [][Next]_vars

\* transforms_policies_to_detectors_list called on a batch of policies.
InitTransform ==
    /\ USE_LOCAL_FILE = TRUE
    /\ cache = <<>>
    /\ prev = NoCall
    /\ last = NoCall
    /\ custom_secrets \in SeqsUpTo(Policies, MaxPolicies)
    /\ idx = 0
    /\ custom_detectors = <<>>
    /\ tstatus = "running"
    /\ customer_env = NoneValue
    /\ detector = NoDetector
    /\ scan = NoScan

NextTransform == TransformStep \/ TransformReturn

SpecTransform == InitTransform /\ [][NextTransform]_vars

\* A scanning process: CUSTOMER_NAME and USE_LOCAL_FILE are fixed, detectors
\* are constructed and lines analysed.
InitScan ==
    /\ USE_LOCAL_FILE \in BOOLEAN
    /\ cache = <<>>
    /\ prev = NoCall
    /\ last = NoCall
    /\ custom_secrets = <<>>
    /\ idx = 0
    /\ custom_detectors = <<>>
    /\ tstatus = "returned"
    /\ customer_env \in {"t1", NoneValue}
    /\ detector = NoDetector
    /\ scan = NoScan

NextScan == Construct \/ AnalyzeLine

SpecScan == InitScan /\ [][NextScan]_vars

----------------------------------------------------------------------------
(* Properties of load_detectors and the cache (Spec) *)

\* The second of two consecutive calls for one customer, the first of which
\* acquired a result.
SecondCallAfterAcquisition ==
    /\ prev.called
    /\ last.called
    /\ TruthyName(prev.customer_name)
    /\ last.customer_name = prev.customer_name
    /\ prev.acquisitions = 1
    /\ prev.acq \in {"data", "notfound"}
    /\ ~prev.raised

\* C1: two consecutive load_detectors() calls for a customer make exactly one
\* acquisition, whatever was acquired (an empty rule set included): the first
\* call stores its result in the cache and the second is served from the cache.
C1_OneAcquisitionForTwoCalls ==
    SecondCallAfterAcquisition =>
        /\ prev.customer_name \in DOMAIN last.before
        /\ last.before[prev.customer_name] = prev.detectors
        /\ last.acquisitions = 0
        /\ last.detectors = prev.detectors

\* C4: a call whose acquisition raises returns an empty rule sequence, raises
\* nothing and leaves the cache as it was; a remote 'not found' gives an empty
\* rule sequence and no error.
C4_AcquisitionFailureIsEmpty ==
    /\ last.acq = "raise" =>
          /\ ~last.raised
          /\ last.detectors = <<>>
          /\ DOMAIN cache = DOMAIN last.before
          /\ \A t \in DOMAIN cache : cache[t] = last.before[t]
    /\ last.acq = "notfound" => ~last.raised /\ last.detectors = <<>>

\* A failed acquisition for a customer without a cache entry, next to the
\* entry of another customer.
C4_Witness ==
    /\ last.acq = "raise"
    /\ last.customer_name \in Tenants
    /\ last.customer_name \notin DOMAIN cache
    /\ DOMAIN cache # {}

\* C9: an entry of the cache is never removed and never replaced by another
\* rule sequence, whether it is empty or not; a call for customer U changes no
\* other customer's entry, and a call without a customer name changes nothing.
C9_EntriesAreNeverReplaced ==
    [][/\ \A t \in DOMAIN cache : t \in DOMAIN cache' /\ cache'[t] = cache[t]
       /\ \A t \in DOMAIN cache' :
             t # last'.customer_name => t \in DOMAIN cache /\ cache'[t] = cache[t]
       /\ ~TruthyName(last'.customer_name) => DOMAIN cache' = DOMAIN cache]_vars

----------------------------------------------------------------------------
(* Properties of transforms_policies_to_detectors_list (SpecTransform) *)

\* The patterns of definition.value in the policy's code document; none when
\* the document has no definition.value.
DefinitionValue(secret_policy) ==
    IF "code" \in DOMAIN secret_policy /\ secret_policy.code \in PatternCodes
        THEN yaml_safe_load(secret_policy.code).value.definition.value
        ELSE <<>>

\* The rules the claims ask of one policy: one per pattern, named by the
\* title, identified by checkovCheckId, or by incidentId when that is an
\* empty string, null or zero.
ExpectedOfPolicy(secret_policy) ==
    LET value == DefinitionValue(secret_policy)
        check_id == IF secret_policy.checkovCheckId \in {JStr(""), JNull, JInt(0)}
                        THEN secret_policy.incidentId
                        ELSE secret_policy.checkovCheckId
    IN  [j \in 1..Len(value) |-> Rule(secret_policy.title, check_id, value[j])]

ExpectedRules(policies) ==
    Flatten([i \in 1..Len(policies) |-> ExpectedOfPolicy(policies[i])])

\* C3: the transformation never raises for a malformed record; such a record
\* adds no rule and every well-formed record of the batch adds all of its own.
C3_MalformedRecordsAreSkipped ==
    /\ tstatus # "raised"
    /\ tstatus = "returned" => custom_detectors = ExpectedRules(custom_secrets)

\* C6: what the transformation has emitted for the policies it has processed is
\* exactly one rule per pattern of definition.value, in the order of the
\* policies and of their patterns, with Name the title, Regex the pattern and
\* Check_ID the checkovCheckId, or the incidentId when that is falsy.
C6_OneRulePerPattern ==
    /\ custom_detectors = ExpectedRules(SubSeq(custom_secrets, 1, idx))
    /\ tstatus = "returned" => idx = Len(custom_secrets)

\* A returned batch of two policies with three patterns, one of them with a
\* falsy checkovCheckId.
C6_Witness ==
    /\ tstatus = "returned"
    /\ Len(custom_secrets) = 2
    /\ Len(custom_detectors) >= 3
    /\ \E i \in 1..2 :
          /\ ~Truthy(custom_secrets[i].checkovCheckId)
          /\ DefinitionValue(custom_secrets[i]) # <<>>

----------------------------------------------------------------------------
(* Properties of CustomRegexDetector (SpecScan) *)

Range(q) == {q[i] : i \in 1..Len(q)}

\* The raw results of the last call that come from one matcher.
RawOf(regex) == SelectSeq(scan.raw, LAMBDA x : x.regex = regex.pattern)

\* What the claims ask of one matcher on a line: per match, left to right, the
\* matched text when the pattern has no group, else the non-empty group values.
ExpectedOfMatcher(regex, string) ==
    LET ms == Matches(regex, string)
    IN  Flatten([i \in 1..Len(ms) |->
            IF regex.groups = 0 THEN <<ms[i].text>>
            ELSE SelectSeq(ms[i].caps, LAMBDA v : v # <<>>)])

\* C2: for every matcher and line, analyze_string yields per match the matched
\* text when the pattern has no capture group and one result per non-empty
\* group value when it has one or more; an empty or absent group yields nothing.
C2_EmptyGroupsAreDropped ==
    scan.called =>
        \A regex \in detector.denylist :
            [i \in 1..Len(RawOf(regex)) |-> RawOf(regex)[i].match]
                = ExpectedOfMatcher(regex, scan.line)

\* The key of the finding that the i-th raw result of the last call makes.
RawKey(i) ==
    <<detector.regex_to_metadata[scan.raw[i].regex].Name, scan.filename,
      scan.raw[i].match, scan.line_number, scan.outcomes[i] = "VERIFIED_TRUE">>

FindingKey(ps) == <<ps.type, ps.filename, ps.secret, ps.line_number, ps.is_verified>>

\* C5: analyze_string does not deduplicate (a text that a pattern without
\* groups matches k times gives k raw results); the set analyze_line returns
\* holds exactly one finding per distinct (rule name, filename, value, line
\* number, verified) among the raw results.
C5_FindingsAreDeduplicated ==
    scan.called =>
        /\ \A regex \in detector.denylist :
              \A v \in {m.text : m \in Range(Matches(regex, scan.line))} :
              regex.groups = 0 =>
                  Len(SelectSeq(RawOf(regex), LAMBDA x : x.match = v))
                      = Len(SelectSeq(Matches(regex, scan.line), LAMBDA m : m.text = v))
        /\ {FindingKey(scan.output[j]) : j \in 1..Len(scan.output)}
              = {RawKey(i) : i \in 1..Len(scan.raw)}
        /\ \A j, k \in 1..Len(scan.output) :
              FindingKey(scan.output[j]) = FindingKey(scan.output[k]) => j = k

\* Two equal raw results with the same verification, merged in the output.
C5_Witness ==
    /\ scan.called
    /\ \E i, j \in 1..Len(scan.raw) :
          /\ i < j
          /\ scan.raw[i] = scan.raw[j]
          /\ scan.outcomes[i] = scan.outcomes[j]
    /\ Len(scan.output) < Len(scan.raw)
    /\ Len(scan.output) >= 2

Compiles(pattern) == ~re_compile(pattern).raised

\* C7: a rule whose pattern is not a regular expression makes the construction
\* fail as a whole: a built detector has a matcher for every rule, and lines
\* are analysed only by a built detector, without an error.
C7_InvalidPatternFailsConstruction ==
    /\ detector.loaded =>
          /\ (\E i \in 1..Len(detector.rules) : ~Compiles(detector.rules[i].Regex))
                => detector.status = "failed"
          /\ detector.status = "built" =>
                {m.pattern : m \in detector.denylist}
                    = {detector.rules[i].Regex : i \in 1..Len(detector.rules)}
    /\ scan.called => detector.status = "built" /\ ~scan.raised

\* A construction that failed at a pattern after one that compiled.
C7_Witness ==
    /\ detector.status = "failed"
    /\ detector.loaded
    /\ detector.denylist # {}

\* C8: a finding is verified iff the hook returned VERIFIED_TRUE for its
\* match; any other result and an exception of the hook give an unverified
\* finding, and neither fails the call nor drops the finding.
C8_VerifiedIffConfirmedTrue ==
    scan.called =>
        /\ ~scan.raised
        /\ \A i \in 1..Len(scan.raw) :
              \E j \in 1..Len(scan.output) :
                  /\ scan.output[j].secret = scan.raw[i].match
                  /\ scan.output[j].type
                        = detector.regex_to_metadata[scan.raw[i].regex].Name
                  /\ scan.output[j].is_verified = (scan.outcomes[i] = "VERIFIED_TRUE")
        /\ \A j \in 1..Len(scan.output) :
              \E i \in 1..Len(scan.raw) :
                  /\ scan.output[j].secret = scan.raw[i].match
                  /\ scan.output[j].is_verified = (scan.outcomes[i] = "VERIFIED_TRUE")

\* A call in which the hook raised for one match and confirmed another.
C8_Witness ==
    /\ scan.called
    /\ \E i, j \in 1..Len(scan.raw) :
          /\ scan.outcomes[i] = "raise"
          /\ scan.outcomes[j] = "VERIFIED_TRUE"
    /\ \E j \in 1..Len(scan.output) : scan.output[j].is_verified
    /\ \E j \in 1..Len(scan.output) : ~scan.output[j].is_verified

\* The last rule of the detector's rule sequence with the pattern.
LastRuleWith(pattern) ==
    LET is == {i \in 1..Len(detector.rules) : detector.rules[i].Regex = pattern}
    IN  detector.rules[CHOOSE i \in is : \A k \in is : k <= i]

\* C10: a built detector has exactly one matcher per distinct pattern of its
\* rule sequence, and the metadata looked up by a matcher's pattern string is
\* the last rule of the sequence with that pattern.
C10_MatchersAndMetadataAgree ==
    detector.status = "built" =>
        /\ Cardinality(detector.denylist)
              = Cardinality({detector.rules[i].Regex : i \in 1..Len(detector.rules)})
        /\ \A m \in detector.denylist :
              /\ m.pattern \in DOMAIN detector.regex_to_metadata
              /\ \E i \in 1..Len(detector.rules) : detector.rules[i].Regex = m.pattern
              /\ detector.regex_to_metadata[m.pattern] = LastRuleWith(m.pattern)

\* A built detector two of whose rules share a pattern and differ otherwise.
C10_Witness ==
    /\ detector.status = "built"
    /\ \E i, j \in 1..Len(detector.rules) :
          /\ i < j
          /\ detector.rules[i].Regex = detector.rules[j].Regex
          /\ detector.rules[i] # detector.rules[j]

====
